---- MODULE Spec2Model ----
(***************************************************************************)
(* Model of the Erupe channel server core                                  *)
(* (server/channelserver/sys_channel_server.go): the connection acceptor,  *)
(* the session manager, Shutdown, the broadcast engine, the semaphore id   *)
(* allocator, the stage/object lookup and the Raviente multiplier.         *)
(***************************************************************************)
EXTENDS Integers, Sequences, FiniteSets, TLC

(* ------------------------------ bounds -------------------------------- *)

\* Number of client connections that may ever arrive at the listener.
MaxConns == 2

\* The connections; NilConn is Go's nil net.Conn (the zero value a receive
\* from the closed acceptConns channel yields).
Conns == 1..MaxConns

NilConn == 0

\* Every value a net.Conn variable can hold.
AllConns == Conns \cup {NilConn}

\* Capacity of a session's outbound queue (its buffered send channel).
QueueCap == 1

\* Number of BroadcastMHF calls made in a run; each carries its own packet.
MaxBroadcasts == 2

\* Top of the modelled id range: Server.semaphoreIndex is a uint32 and its
\* arithmetic is modelled modulo MaxId + 1 (in the program, modulo 2^32).
MaxId == 15

\* The value NewServer gives the allocator cursor.
InitialIndex == 7

\* The value the cursor is set to when the increment wraps to 0.
ReservedSkip == 7

\* Number of semaphore names in use.
MaxSems == 2

SemNames == 1..MaxSems

\* Number of NextSemaphoreID calls made in a run.
MaxAllocs == 3

\* The handler tasks that create semaphores.
SemCallers == {"h1", "h2"}

\* Cursor values the allocator is started from: a fresh server's, and
\* values at the top of the range, reached after that many allocations.
CursorStarts == {InitialIndex, InitialIndex + 1, MaxId - 1, MaxId}

\* Ids the semaphores alive at the start may hold.
IdPool == {ReservedSkip, ReservedSkip + 1, ReservedSkip + 2, MaxId}

\* Number of stages in the stage map.
NumStages == 2

Stages == 1..NumStages

\* The keys NewServer seeds s.stages with.
SeededStages ==
    {"sl1Ns200p0a0u0", "sl1Ns211p0a0u0", "sl1Ns260p0a0u0", "sl1Ns262p0a0u0",
     "sl1Ns263p0a0u0", "sl2Ns379p0a0u0", "sl1Ns462p0a0u0"}

\* Number of object ids in use within a stage.
MaxObjs == 2

ObjIds == 1..MaxObjs

\* The character ids that own objects or are looked up.
Chars == {"c1", "c2"}

\* Largest max-player target of the Raviente register that is tried.
MaxPlayersTop == 10

\* Largest occupancy of the Raviente semaphore that is tried.
MaxOccupancy == 26

\* The tasks (game-logic handlers) that call BroadcastMHF.
Bcasters == {"b1", "b2"}

\* The broadcasting task of the runs with a single one.
SoloBcasters == {"b1"}

\* The channel servers of the cluster: s.Channels lists them in this order.
NumChans == 2

Chans == 1..NumChans

\* A nil *Server argument.
NilChan == 0

\* Sessions a channel of the cluster may hold, numbered within the channel.
SessPerChan == 1

\* The sessions of the cluster, as <<channel, number>>.
ChanSessions == Chans \X (1..SessPerChan)

\* A nil *Session argument.
NilSession == <<0, 0>>

\* The tasks that call WorldcastMHF or BroadcastRaviente.
Wcasters == {"w1", "w2"}

\* Event-type codes passed to BroadcastRaviente (uint8).
TypeCodes == {0, 1, 2, 3, 4, 5, 6, 255}

\* s.dict, the localized strings of the server's language.
Dict ==
    [ravienteBerserk |-> "<berserk>",
     ravienteExtreme |-> "<extreme>",
     ravienteExtremeLimited |-> "<extreme limited>",
     ravienteBerserkSmall |-> "<berserk small>"]

(* ------------------------------- state -------------------------------- *)

VARIABLES
    isShuttingDown,   \* Server.isShuttingDown
    listenerOpen,     \* Server.listener is open (not yet Close()d)
    acceptConnsOpen,  \* Server.acceptConns is not yet close()d
    sessions,         \* keys of Server.sessions (map[net.Conn]*Session)
    mutex,            \* holder of the embedded Server.sync.Mutex, or "none"
    nextConn,         \* next connection the listener will accept
    connSt,           \* per connection: new, held, running, notifying, gone
    acPc, acConn, acShutdown,   \* acceptClients goroutine
    mgPc, mgConn, mgShutdown,   \* manageSessions goroutine
    sdPc,                       \* the task calling Shutdown
    accepted,         \* history: connections Accept returned, in order
    handedOff,        \* history: connections the manager received, in order
    queue,            \* per session: its outbound queue (packets, oldest first)
    nMsgs,            \* number of BroadcastMHF calls started so far
    bcPc,             \* per broadcaster: "idle", "lock", "range"
    bcMsg,            \* the packet of the current or last call (0: none)
    bcIgnored,        \* the ignoredSession argument (NilConn: nil)
    bcIter,           \* sessions the range loop has produced so far
    bcSnap,           \* history: the session set when the call took the mutex
    bcTried,          \* history: sessions the enqueue was called for, in order
    bcFull,           \* history: sessions whose queue was full when visited
    bcGot,            \* history: sessions the packet was enqueued to
    enqLog,           \* history: per session, the packets enqueued by the
                      \* calls in progress and those overlapping them
    semaphoreIndex,   \* Server.semaphoreIndex (uint32 cursor)
    semaphore,        \* Server.semaphore: set of <<name, id>>, one per name
    semaphoreLock,    \* holder of Server.semaphoreLock, or "none"
    nAllocs,          \* number of NextSemaphoreID calls started
    smPc,             \* per caller: position in the handler / NextSemaphoreID
    smName,           \* per caller: name of the semaphore being created
    smExists,         \* per caller: NextSemaphoreID's local exists
    smRet,            \* per caller: the id NextSemaphoreID returned
    smStart,          \* history: cursor value when the call began
    smTries,          \* history: cursor advances made by the call
    smHist,           \* history: every id returned so far, in order
    stageObjs,        \* per stage: Stage.objects as <<id, ownerCharID>> pairs
    stagesReaders,    \* read holds on Server.stagesLock
    stageReaders,     \* per stage: read holds on the stage's own lock
    fdPc,             \* position of the FindObjectByChar call
    fdChar,           \* its charID argument
    fdStagesSeen,     \* stages the outer range has produced
    fdStage,          \* the stage being scanned
    fdObjsSeen,       \* objects of that stage the inner range has produced
    fdResult,         \* the returned object <<stage, id>>; <<>> is nil
    rvMaxPlayers,     \* Raviente.register.maxPlayers
    rvHasSema,        \* getRaviSemaphore(s) != nil
    rvClients,        \* len(raviSema.clients)
    rvPc,             \* position of the GetRaviMultiplier call
    rvResult,         \* the value it returned
    rvPanic,          \* the call ended in a runtime panic
    fsPc,             \* position of the FindSessionByCharID call
    fsTarget,         \* the session whose charID is the argument
    fsIter,           \* sessions its range loop has produced so far
    fsResult,         \* the session it returned (NilConn: nil)
    chSessions,       \* per channel of the cluster: keys of its sessions map
    chMutex,          \* per channel: holder of its Server.sync.Mutex
    chMgPc,           \* per channel: its manageSessions ("idle", "write")
    wcPc,             \* per worldcaster: position in WorldcastMHF
    wcOrigin,         \* the channel the call was made on (s)
    wcIgnSess,        \* the ignoredSession argument
    wcIgnChan,        \* the ignoredChannel argument
    wcIdx,            \* index of the range over s.Channels
    wcIter,           \* sessions the current BroadcastMHF has produced
    wcCalls,          \* history: channels BroadcastMHF was invoked on
    wcSent,           \* history: sessions the enqueue was called for by
                      \* the current BroadcastMHF
    wcType,           \* BroadcastRaviente: the _type argument (-1: none)
    wcText,           \* BroadcastRaviente: the text written to the packet
    wcLogged          \* BroadcastRaviente: the error was logged

hoVars == <<accepted, handedOff>>

lifeVars == <<isShuttingDown, listenerOpen, acceptConnsOpen, sessions, mutex,
              nextConn, connSt, acPc, acConn, acShutdown, mgPc, mgConn,
              mgShutdown, sdPc, hoVars>>

bcVars == <<queue, nMsgs, bcPc, bcMsg, bcIgnored, bcIter, bcSnap, bcTried,
            bcFull, bcGot, enqLog>>

semVars == <<semaphoreIndex, semaphore, semaphoreLock, nAllocs, smPc, smName,
             smExists, smRet, smStart, smTries, smHist>>

\* The registries: untouched by the connection lifecycle and by broadcasts.
findVars == <<stageObjs, stagesReaders, stageReaders, fdPc, fdChar,
              fdStagesSeen, fdStage, fdObjsSeen, fdResult>>

raviVars == <<rvMaxPlayers, rvHasSema, rvClients, rvPc, rvResult, rvPanic>>

fsVars == <<fsPc, fsTarget, fsIter, fsResult>>

\* The operations modelled apart from the lifecycle, the broadcasts and the
\* registries.
wcVars == <<chSessions, chMutex, chMgPc, wcPc, wcOrigin, wcIgnSess,
            wcIgnChan, wcIdx, wcIter, wcCalls, wcSent, wcType, wcText,
            wcLogged>>

auxVars == <<fsVars, wcVars>>

regVars == <<semVars, findVars, raviVars, auxVars>>

vars == <<lifeVars, bcVars, regVars>>

(* --------------------------- sync.Mutex -------------------------------- *)

\* s.Lock(): blocks until the mutex is free, then p holds it.
Lock(p) == mutex = "none" /\ mutex' = p

\* s.Unlock()
Unlock(p) == mutex' = "none"

\* A goroutine panic ends the whole process: nothing runs afterwards.
Live == acPc # "panic"

(* ------------------------- NewServer / Start --------------------------- *)

\* State after NewServer and a successful Start: both goroutines are at the
\* top of their loops, no session exists, Shutdown has not been called.
LifeInit ==
    /\ isShuttingDown = FALSE
    /\ listenerOpen = TRUE
    /\ acceptConnsOpen = TRUE
    /\ sessions = {}
    /\ mutex = "none"
    /\ nextConn = 1
    /\ connSt = [c \in Conns |-> "new"]
    /\ acPc = "accept" /\ acConn = NilConn /\ acShutdown = FALSE
    /\ mgPc = "select" /\ mgConn = NilConn /\ mgShutdown = FALSE
    /\ sdPc = "idle"
    /\ accepted = <<>> /\ handedOff = <<>>

(* ------------------------------ Shutdown ------------------------------- *)

\* Shutdown is called (once) by some task.
ShutdownCall ==
    /\ Live /\ sdPc = "idle"
    /\ sdPc' = "lock"
    /\ UNCHANGED <<isShuttingDown, listenerOpen, acceptConnsOpen, sessions,
                   mutex, nextConn, connSt, acPc, acConn, acShutdown, mgPc,
                   mgConn, mgShutdown, bcVars, regVars, hoVars>>

\* s.Lock()
ShutdownLock ==
    /\ Live /\ sdPc = "lock"
    /\ Lock("shutdown")
    /\ sdPc' = "flag"
    /\ UNCHANGED <<isShuttingDown, listenerOpen, acceptConnsOpen, sessions,
                   nextConn, connSt, acPc, acConn, acShutdown, mgPc, mgConn,
                   mgShutdown, bcVars, regVars, hoVars>>

\* ShutdownSetFlag leaving the flag as it is.
ShutdownSetFlagSkipped ==
    /\ Live /\ sdPc = "flag"
    /\ Unlock("shutdown")
    /\ sdPc' = "closeListener"
    /\ UNCHANGED <<isShuttingDown, listenerOpen, acceptConnsOpen, sessions,
                   nextConn, connSt, acPc, acConn, acShutdown, mgPc, mgConn,
                   mgShutdown, bcVars, regVars, hoVars>>

\* s.isShuttingDown = true; s.Unlock()
ShutdownSetFlag ==
    /\ Live /\ sdPc = "flag"
    /\ isShuttingDown' = TRUE
    /\ Unlock("shutdown")
    /\ sdPc' = "closeListener"
    /\ UNCHANGED <<listenerOpen, acceptConnsOpen, sessions, nextConn, connSt,
                   acPc, acConn, acShutdown, mgPc, mgConn, mgShutdown,
                   bcVars, regVars, hoVars>>

\* s.listener.Close()
ShutdownCloseListener ==
    /\ Live /\ sdPc = "closeListener"
    /\ listenerOpen' = FALSE
    /\ sdPc' = "closeChan"
    /\ UNCHANGED <<isShuttingDown, acceptConnsOpen, sessions, mutex, nextConn,
                   connSt, acPc, acConn, acShutdown, mgPc, mgConn,
                   mgShutdown, bcVars, regVars, hoVars>>

\* close(s.acceptConns); Shutdown returns.
ShutdownCloseChan ==
    /\ Live /\ sdPc = "closeChan"
    /\ acceptConnsOpen' = FALSE
    /\ sdPc' = "done"
    /\ UNCHANGED <<isShuttingDown, listenerOpen, sessions, mutex, nextConn,
                   connSt, acPc, acConn, acShutdown, mgPc, mgConn,
                   mgShutdown, bcVars, regVars, hoVars>>

(* ---------------------------- acceptClients ---------------------------- *)

\* conn, err := s.listener.Accept() with err == nil: a client connected.
AcceptOk ==
    /\ Live /\ acPc = "accept" /\ listenerOpen
    /\ nextConn \in Conns
    /\ acConn' = nextConn
    /\ nextConn' = nextConn + 1
    /\ connSt' = [connSt EXCEPT ![nextConn] = "held"]
    /\ acPc' = "send"
    /\ accepted' = Append(accepted, nextConn)
    /\ UNCHANGED <<isShuttingDown, listenerOpen, acceptConnsOpen, sessions,
                   mutex, acShutdown, mgPc, mgConn, mgShutdown, sdPc, bcVars,
                   regVars, handedOff>>

\* Accept returns an error: always once the listener is closed, and as a
\* transient failure while it is open.
AcceptErr ==
    /\ Live /\ acPc = "accept"
    /\ acPc' = "errLock"
    /\ UNCHANGED <<isShuttingDown, listenerOpen, acceptConnsOpen, sessions,
                   mutex, nextConn, connSt, acConn, acShutdown, mgPc, mgConn,
                   mgShutdown, sdPc, bcVars, regVars, hoVars>>

\* s.Lock() on the error path
AcceptErrLock ==
    /\ Live /\ acPc = "errLock"
    /\ Lock("acceptor")
    /\ acPc' = "errRead"
    /\ UNCHANGED <<isShuttingDown, listenerOpen, acceptConnsOpen, sessions,
                   nextConn, connSt, acConn, acShutdown, mgPc, mgConn,
                   mgShutdown, sdPc, bcVars, regVars, hoVars>>

\* shutdown := s.isShuttingDown; s.Unlock()
AcceptErrRead ==
    /\ Live /\ acPc = "errRead"
    /\ acShutdown' = isShuttingDown
    /\ Unlock("acceptor")
    /\ acPc' = "errBranch"
    /\ UNCHANGED <<isShuttingDown, listenerOpen, acceptConnsOpen, sessions,
                   nextConn, connSt, acConn, mgPc, mgConn, mgShutdown, sdPc,
                   bcVars, regVars, hoVars>>

\* AcceptErrBranch leaving the loop on every error.
AcceptErrBranchAlwaysBreak ==
    /\ Live /\ acPc = "errBranch"
    /\ acPc' = "done"
    /\ UNCHANGED <<isShuttingDown, listenerOpen, acceptConnsOpen, sessions,
                   mutex, nextConn, connSt, acConn, acShutdown, mgPc, mgConn,
                   mgShutdown, sdPc, bcVars, regVars, hoVars>>

\* if shutdown { break } else { log; continue }
AcceptErrBranch ==
    /\ Live /\ acPc = "errBranch"
    /\ acPc' = IF acShutdown THEN "done" ELSE "accept"
    /\ UNCHANGED <<isShuttingDown, listenerOpen, acceptConnsOpen, sessions,
                   mutex, nextConn, connSt, acConn, acShutdown, mgPc, mgConn,
                   mgShutdown, sdPc, bcVars, regVars, hoVars>>

\* s.acceptConns <- conn on a closed channel (closed before the send or
\* while the sender is blocked in it): Go panics "send on closed channel".
AcceptSendClosed ==
    /\ Live /\ acPc = "send" /\ ~acceptConnsOpen
    /\ acPc' = "panic"
    /\ UNCHANGED <<isShuttingDown, listenerOpen, acceptConnsOpen, sessions,
                   mutex, nextConn, connSt, acConn, acShutdown, mgPc, mgConn,
                   mgShutdown, sdPc, bcVars, regVars, hoVars>>

(* ---------------------------- manageSessions --------------------------- *)

\* The unbuffered handoff: s.acceptConns <- conn in acceptClients meets
\* case newConn := <-s.acceptConns in manageSessions.
HandOff ==
    /\ Live /\ acPc = "send" /\ mgPc = "select" /\ acceptConnsOpen
    /\ mgConn' = acConn
    /\ acConn' = NilConn
    /\ acPc' = "accept"
    /\ mgPc' = "nilCheck"
    /\ handedOff' = Append(handedOff, acConn)
    /\ UNCHANGED <<isShuttingDown, listenerOpen, acceptConnsOpen, sessions,
                   mutex, nextConn, connSt, acShutdown, mgShutdown, sdPc,
                   bcVars, regVars, accepted>>

\* case newConn := <-s.acceptConns on the closed channel: receives nil.
RecvClosed ==
    /\ Live /\ mgPc = "select" /\ ~acceptConnsOpen
    /\ mgConn' = NilConn
    /\ mgPc' = "nilCheck"
    /\ UNCHANGED <<isShuttingDown, listenerOpen, acceptConnsOpen, sessions,
                   mutex, nextConn, connSt, acPc, acConn, acShutdown,
                   mgShutdown, sdPc, bcVars, regVars, hoVars>>

\* if newConn == nil { s.Lock() ... } : a non-nil connection skips the block.
ManageNilCheck ==
    /\ Live /\ mgPc = "nilCheck"
    /\ IF mgConn = NilConn
         THEN Lock("manager") /\ mgPc' = "nilRead"
         ELSE mgPc' = "newSession" /\ UNCHANGED mutex
    /\ UNCHANGED <<isShuttingDown, listenerOpen, acceptConnsOpen, sessions,
                   nextConn, connSt, acPc, acConn, acShutdown, mgConn,
                   mgShutdown, sdPc, bcVars, regVars, hoVars>>

\* shutdown := s.isShuttingDown; s.Unlock()
ManageNilRead ==
    /\ Live /\ mgPc = "nilRead"
    /\ mgShutdown' = isShuttingDown
    /\ Unlock("manager")
    /\ mgPc' = "nilBranch"
    /\ UNCHANGED <<isShuttingDown, listenerOpen, acceptConnsOpen, sessions,
                   nextConn, connSt, acPc, acConn, acShutdown, mgConn, sdPc,
                   bcVars, regVars, hoVars>>

\* if shutdown { return }; otherwise execution falls through to NewSession.
ManageNilBranch ==
    /\ Live /\ mgPc = "nilBranch"
    /\ mgPc' = IF mgShutdown THEN "done" ELSE "newSession"
    /\ UNCHANGED <<isShuttingDown, listenerOpen, acceptConnsOpen, sessions,
                   mutex, nextConn, connSt, acPc, acConn, acShutdown, mgConn,
                   mgShutdown, sdPc, bcVars, regVars, hoVars>>

\* session := NewSession(s, newConn); s.Lock()
ManageInsertLock ==
    /\ Live /\ mgPc = "newSession"
    /\ Lock("manager")
    /\ mgPc' = "insert"
    /\ UNCHANGED <<isShuttingDown, listenerOpen, acceptConnsOpen, sessions,
                   nextConn, connSt, acPc, acConn, acShutdown, mgConn,
                   mgShutdown, sdPc, bcVars, regVars, hoVars>>

\* s.sessions[newConn] = session; s.Unlock()
ManageInsert ==
    /\ Live /\ mgPc = "insert"
    /\ sessions' = sessions \cup {mgConn}
    /\ Unlock("manager")
    /\ mgPc' = "start"
    /\ UNCHANGED <<isShuttingDown, listenerOpen, acceptConnsOpen, nextConn,
                   connSt, acPc, acConn, acShutdown, mgConn, mgShutdown,
                   sdPc, bcVars, regVars, hoVars>>

\* session.Start(): the session's read/write activity begins.
ManageStart ==
    /\ Live /\ mgPc = "start"
    /\ connSt' = IF mgConn \in Conns
                   THEN [connSt EXCEPT ![mgConn] = "running"]
                   ELSE connSt
    /\ mgConn' = NilConn
    /\ mgPc' = "select"
    /\ UNCHANGED <<isShuttingDown, listenerOpen, acceptConnsOpen, sessions,
                   mutex, nextConn, acPc, acConn, acShutdown, mgShutdown,
                   sdPc, bcVars, regVars, hoVars>>

\* A running session's connection ends: its task blocks in the send of its
\* connection on deleteConns (the removal notification).
SessionEnd(c) ==
    /\ Live /\ connSt[c] = "running"
    /\ connSt' = [connSt EXCEPT ![c] = "notifying"]
    /\ UNCHANGED <<isShuttingDown, listenerOpen, acceptConnsOpen, sessions,
                   mutex, nextConn, acPc, acConn, acShutdown, mgPc, mgConn,
                   mgShutdown, sdPc, bcVars, regVars, hoVars>>

\* case delConn := <-s.deleteConns: the unbuffered receive meets a sender.
DeleteRecv(c) ==
    /\ Live /\ mgPc = "select" /\ connSt[c] = "notifying"
    /\ connSt' = [connSt EXCEPT ![c] = "gone"]
    /\ mgConn' = c
    /\ mgPc' = "delLock"
    /\ UNCHANGED <<isShuttingDown, listenerOpen, acceptConnsOpen, sessions,
                   mutex, nextConn, acPc, acConn, acShutdown, mgShutdown,
                   sdPc, bcVars, regVars, hoVars>>

\* s.Lock() in the delete case
ManageDeleteLock ==
    /\ Live /\ mgPc = "delLock"
    /\ Lock("manager")
    /\ mgPc' = "delete"
    /\ UNCHANGED <<isShuttingDown, listenerOpen, acceptConnsOpen, sessions,
                   nextConn, connSt, acPc, acConn, acShutdown, mgConn,
                   mgShutdown, sdPc, bcVars, regVars, hoVars>>

\* delete(s.sessions, delConn); s.Unlock()
ManageDelete ==
    /\ Live /\ mgPc = "delete"
    /\ sessions' = sessions \ {mgConn}
    /\ Unlock("manager")
    /\ mgConn' = NilConn
    /\ mgPc' = "select"
    /\ UNCHANGED <<isShuttingDown, listenerOpen, acceptConnsOpen, nextConn,
                   connSt, acPc, acConn, acShutdown, mgShutdown, sdPc,
                   bcVars, regVars, hoVars>>

(* ---------------------- Session outbound queue ------------------------ *)

\* Session.QueueSendNonBlocking(data): enqueue unless the session's send
\* buffer is full, in which case the packet is dropped; never blocks.
QueueSendNonBlocking(q, data) ==
    IF Len(q) < QueueCap THEN Append(q, data) ELSE q

\* The session's own send loop takes the oldest packet off its queue.
QueueDrain(c) ==
    /\ Live /\ connSt[c] = "running" /\ queue[c] # <<>>
    /\ queue' = [queue EXCEPT ![c] = Tail(@)]
    /\ UNCHANGED <<lifeVars, nMsgs, bcPc, bcMsg, bcIgnored, bcIter, bcSnap,
                   bcTried, bcFull, bcGot, regVars, enqLog>>

(* ----------------------------- BroadcastMHF ---------------------------- *)

BcInit ==
    /\ queue = [c \in AllConns |-> <<>>]
    /\ nMsgs = 0
    /\ bcPc = [b \in Bcasters |-> "idle"]
    /\ bcMsg = [b \in Bcasters |-> 0]
    /\ bcIgnored = [b \in Bcasters |-> NilConn]
    /\ bcIter = [b \in Bcasters |-> {}]
    /\ bcSnap = [b \in Bcasters |-> {}]
    /\ bcTried = [b \in Bcasters |-> <<>>]
    /\ bcFull = [b \in Bcasters |-> {}]
    /\ bcGot = [b \in Bcasters |-> {}]
    /\ enqLog = [c \in AllConns |-> <<>>]

\* A task calls BroadcastMHF(pkt, ignoredSession); ignoredSession is nil
\* or any session, in the set or not.
BroadcastCall(b, ign) ==
    /\ Live /\ bcPc[b] = "idle" /\ nMsgs < MaxBroadcasts
    /\ nMsgs' = nMsgs + 1
    /\ bcMsg' = [bcMsg EXCEPT ![b] = nMsgs + 1]
    /\ bcIgnored' = [bcIgnored EXCEPT ![b] = ign]
    /\ bcIter' = [bcIter EXCEPT ![b] = {}]
    /\ bcSnap' = [bcSnap EXCEPT ![b] = {}]
    /\ bcTried' = [bcTried EXCEPT ![b] = <<>>]
    /\ bcFull' = [bcFull EXCEPT ![b] = {}]
    /\ bcGot' = [bcGot EXCEPT ![b] = {}]
    /\ bcPc' = [bcPc EXCEPT ![b] = "lock"]
    /\ UNCHANGED <<lifeVars, queue, enqLog, regVars>>

\* BroadcastLock with the s.Lock() call left out: the iteration starts
\* without the server mutex.
BroadcastLockMissing(b) ==
    /\ Live /\ bcPc[b] = "lock"
    /\ bcSnap' = [bcSnap EXCEPT ![b] = sessions]
    /\ bcPc' = [bcPc EXCEPT ![b] = "range"]
    /\ UNCHANGED <<lifeVars, queue, nMsgs, bcMsg, bcIgnored, bcIter, bcTried,
                   bcFull, bcGot, regVars, enqLog>>

\* s.Lock(); defer s.Unlock()
BroadcastLock(b) ==
    /\ Live /\ bcPc[b] = "lock"
    /\ Lock(b)
    /\ bcSnap' = [bcSnap EXCEPT ![b] = sessions]
    /\ bcPc' = [bcPc EXCEPT ![b] = "range"]
    /\ UNCHANGED <<isShuttingDown, listenerOpen, acceptConnsOpen, sessions,
                   nextConn, connSt, acPc, acConn, acShutdown, mgPc, mgConn,
                   mgShutdown, sdPc, queue, nMsgs, bcMsg, bcIgnored, bcIter,
                   bcTried, bcFull, bcGot, regVars, hoVars, enqLog>>

\* BroadcastVisit with a blocking channel send in place of the non-blocking
\* enqueue: the iteration waits for room in the session's queue.
BroadcastVisitBlocking(b, c) ==
    /\ Live /\ bcPc[b] = "range"
    /\ c \in sessions \ bcIter[b]
    /\ c # bcIgnored[b] => Len(queue[c]) < QueueCap
    /\ bcIter' = [bcIter EXCEPT ![b] = @ \cup {c}]
    /\ IF c = bcIgnored[b]
         THEN UNCHANGED <<queue, bcTried, bcFull, bcGot, enqLog>>
         ELSE /\ queue' = [queue EXCEPT ![c] = Append(@, bcMsg[b])]
              /\ bcTried' = [bcTried EXCEPT ![b] = Append(@, c)]
              /\ bcGot' = [bcGot EXCEPT ![b] = @ \cup {c}]
              /\ enqLog' = [enqLog EXCEPT ![c] = Append(@, bcMsg[b])]
              /\ UNCHANGED bcFull
    /\ UNCHANGED <<lifeVars, nMsgs, bcPc, bcMsg, bcIgnored, bcSnap, regVars>>

\* One iteration of for _, session := range s.sessions: the range produces
\* an entry of the map it has not produced yet; the ignored session is
\* skipped, any other gets the packet built and QueueSendNonBlocking called.
BroadcastVisit(b, c) ==
    /\ Live /\ bcPc[b] = "range"
    /\ c \in sessions \ bcIter[b]
    /\ bcIter' = [bcIter EXCEPT ![b] = @ \cup {c}]
    /\ IF c = bcIgnored[b]
         THEN UNCHANGED <<queue, bcTried, bcFull, bcGot, enqLog>>
         ELSE /\ queue' = [queue EXCEPT ![c] =
                             QueueSendNonBlocking(@, bcMsg[b])]
              /\ bcTried' = [bcTried EXCEPT ![b] = Append(@, c)]
              /\ bcFull' = [bcFull EXCEPT ![b] =
                              IF Len(queue[c]) >= QueueCap
                                THEN @ \cup {c} ELSE @]
              /\ bcGot' = [bcGot EXCEPT ![b] =
                              IF queue'[c] # queue[c] THEN @ \cup {c} ELSE @]
              /\ enqLog' = [enqLog EXCEPT ![c] =
                              IF queue'[c] # queue[c]
                                THEN Append(@, bcMsg[b]) ELSE @]
    /\ UNCHANGED <<lifeVars, nMsgs, bcPc, bcMsg, bcIgnored, bcSnap, regVars>>

\* The range has produced every entry: the loop ends.
BroadcastRangeEnd(b) ==
    /\ Live /\ bcPc[b] = "range"
    /\ sessions \ bcIter[b] = {}
    /\ bcPc' = [bcPc EXCEPT ![b] = "return"]
    /\ UNCHANGED <<lifeVars, queue, nMsgs, bcMsg, bcIgnored, bcIter, bcSnap,
                   bcTried, bcFull, bcGot, regVars, enqLog>>

\* The function returns and the deferred s.Unlock() runs.  (The history of
\* the finished call is cleared with it; the enqueue log is kept while
\* another call is in progress.)
BroadcastUnlock(b) ==
    /\ Live /\ bcPc[b] = "return"
    /\ Unlock(b)
    /\ bcPc' = [bcPc EXCEPT ![b] = "idle"]
    /\ bcIter' = [bcIter EXCEPT ![b] = {}]
    /\ bcSnap' = [bcSnap EXCEPT ![b] = {}]
    /\ bcTried' = [bcTried EXCEPT ![b] = <<>>]
    /\ bcFull' = [bcFull EXCEPT ![b] = {}]
    /\ bcGot' = [bcGot EXCEPT ![b] = {}]
    /\ bcIgnored' = [bcIgnored EXCEPT ![b] = NilConn]
    /\ enqLog' = IF \A b2 \in Bcasters \ {b} : bcPc[b2] = "idle"
                   THEN [c \in AllConns |-> <<>>]
                   ELSE enqLog
    /\ UNCHANGED <<isShuttingDown, listenerOpen, acceptConnsOpen, sessions,
                   nextConn, connSt, acPc, acConn, acShutdown, mgPc, mgConn,
                   mgShutdown, sdPc, queue, nMsgs, bcMsg, regVars, hoVars>>

(* -------------------- semaphore registry and allocator ----------------- *)

\* The ids held by the live semaphores.
LiveIds == {e[2] : e \in semaphore}

\* The semaphore maps the registry may hold at the start: each name at most
\* once, no two semaphores with the same id.
StartMaps ==
    {m \in SUBSET (SemNames \X IdPool) :
        \A e1, e2 \in m : (e1[1] = e2[1] \/ e1[2] = e2[2]) => e1 = e2}

\* No handler is inside a semaphore operation.
SemCallersIdle ==
    /\ semaphoreLock = "none"
    /\ nAllocs = 0
    /\ smPc = [p \in SemCallers |-> "idle"]
    /\ smName = [p \in SemCallers |-> 0]
    /\ smExists = [p \in SemCallers |-> FALSE]
    /\ smRet = [p \in SemCallers |-> 0]
    /\ smStart = [p \in SemCallers |-> 0]
    /\ smTries = [p \in SemCallers |-> 0]
    /\ smHist = <<>>

SemInit ==
    /\ semaphoreIndex \in CursorStarts
    /\ semaphore \in StartMaps
    /\ SemCallersIdle

\* SemFresh with the cursor left at the zero value of uint32.
SemFreshZeroCursor ==
    /\ semaphoreIndex = 0
    /\ semaphore = {}
    /\ SemCallersIdle

\* The registry of a freshly constructed server (NewServer).
SemFresh ==
    /\ semaphoreIndex = InitialIndex
    /\ semaphore = {}
    /\ SemCallersIdle

\* A handler starts creating the semaphore named n, which does not exist.
SemCreate(p, n) ==
    /\ smPc[p] = "idle" /\ nAllocs < MaxAllocs
    /\ n \notin {e[1] : e \in semaphore}
    /\ \A q \in SemCallers : smPc[q] # "idle" => smName[q] # n
    /\ nAllocs' = nAllocs + 1
    /\ smName' = [smName EXCEPT ![p] = n]
    /\ smPc' = [smPc EXCEPT ![p] = "lock"]
    /\ UNCHANGED <<lifeVars, bcVars, auxVars, findVars, raviVars,
                   semaphoreIndex, semaphore, semaphoreLock, smExists, smRet,
                   smStart, smTries, smHist>>

\* SemLock with the lock acquisition left out.
SemLockMissing(p) ==
    /\ smPc[p] = "lock"
    /\ smStart' = [smStart EXCEPT ![p] = semaphoreIndex]
    /\ smTries' = [smTries EXCEPT ![p] = 0]
    /\ smPc' = [smPc EXCEPT ![p] = "advance"]
    /\ UNCHANGED <<lifeVars, bcVars, auxVars, findVars, raviVars,
                   semaphoreIndex, semaphore, semaphoreLock, nAllocs, smName,
                   smExists, smRet, smHist>>

\* The handler takes s.semaphoreLock and calls NextSemaphoreID.
SemLock(p) ==
    /\ smPc[p] = "lock"
    /\ semaphoreLock = "none"
    /\ semaphoreLock' = p
    /\ smStart' = [smStart EXCEPT ![p] = semaphoreIndex]
    /\ smTries' = [smTries EXCEPT ![p] = 0]
    /\ smPc' = [smPc EXCEPT ![p] = "advance"]
    /\ UNCHANGED <<lifeVars, bcVars, auxVars, findVars, raviVars,
                   semaphoreIndex, semaphore, nAllocs, smName, smExists,
                   smRet, smHist>>

\* NextSemaphoreIDAdvance without the skip of the reserved indexes: the
\* cursor wraps to 0 like any unsigned integer.
NextSemaphoreIDAdvanceNoSkip(p) ==
    /\ smPc[p] = "advance"
    /\ smExists' = [smExists EXCEPT ![p] = FALSE]
    /\ semaphoreIndex' = (semaphoreIndex + 1) % (MaxId + 1)
    /\ smTries' = [smTries EXCEPT ![p] = @ + 1]
    /\ smPc' = [smPc EXCEPT ![p] = "scan"]
    /\ UNCHANGED <<lifeVars, bcVars, auxVars, findVars, raviVars,
                   semaphore, semaphoreLock, nAllocs, smName, smRet, smStart,
                   smHist>>

\* exists := false; s.semaphoreIndex = s.semaphoreIndex + 1 (uint32);
\* if s.semaphoreIndex == 0 { s.semaphoreIndex = 7 }
NextSemaphoreIDAdvance(p) ==
    /\ smPc[p] = "advance"
    /\ smExists' = [smExists EXCEPT ![p] = FALSE]
    /\ semaphoreIndex' =
          IF (semaphoreIndex + 1) % (MaxId + 1) = 0
            THEN ReservedSkip
            ELSE (semaphoreIndex + 1) % (MaxId + 1)
    /\ smTries' = [smTries EXCEPT ![p] = @ + 1]
    /\ smPc' = [smPc EXCEPT ![p] = "scan"]
    /\ UNCHANGED <<lifeVars, bcVars, auxVars, findVars, raviVars,
                   semaphore, semaphoreLock, nAllocs, smName, smRet, smStart,
                   smHist>>

\* for _, semaphore := range s.semaphore
\*     { if semaphore.id == s.semaphoreIndex { exists = true } }
NextSemaphoreIDScan(p) ==
    /\ smPc[p] = "scan"
    /\ smExists' = [smExists EXCEPT ![p] = semaphoreIndex \in LiveIds]
    /\ smPc' = [smPc EXCEPT ![p] = "check"]
    /\ UNCHANGED <<lifeVars, bcVars, auxVars, findVars, raviVars,
                   semaphoreIndex, semaphore, semaphoreLock, nAllocs, smName,
                   smRet, smStart, smTries, smHist>>

\* NextSemaphoreIDCheck leaving the loop whatever the scan found.
NextSemaphoreIDCheckAlwaysBreak(p) ==
    /\ smPc[p] = "check"
    /\ smPc' = [smPc EXCEPT ![p] = "return"]
    /\ UNCHANGED <<lifeVars, bcVars, auxVars, findVars, raviVars,
                   semaphoreIndex, semaphore, semaphoreLock, nAllocs, smName,
                   smExists, smRet, smStart, smTries, smHist>>

\* NextSemaphoreIDCheck with the test inverted: the loop runs again on a
\* free id and ends on a collision.
NextSemaphoreIDCheckInverted(p) ==
    /\ smPc[p] = "check"
    /\ smPc' = [smPc EXCEPT ![p] = IF smExists[p] THEN "return" ELSE "advance"]
    /\ UNCHANGED <<lifeVars, bcVars, auxVars, findVars, raviVars,
                   semaphoreIndex, semaphore, semaphoreLock, nAllocs, smName,
                   smExists, smRet, smStart, smTries, smHist>>

\* if exists == false { break }; otherwise the loop runs again.
NextSemaphoreIDCheck(p) ==
    /\ smPc[p] = "check"
    /\ smPc' = [smPc EXCEPT ![p] = IF smExists[p] THEN "advance" ELSE "return"]
    /\ UNCHANGED <<lifeVars, bcVars, auxVars, findVars, raviVars,
                   semaphoreIndex, semaphore, semaphoreLock, nAllocs, smName,
                   smExists, smRet, smStart, smTries, smHist>>

\* return s.semaphoreIndex
NextSemaphoreIDReturn(p) ==
    /\ smPc[p] = "return"
    /\ smRet' = [smRet EXCEPT ![p] = semaphoreIndex]
    /\ smHist' = Append(smHist, semaphoreIndex)
    /\ smPc' = [smPc EXCEPT ![p] = "register"]
    /\ UNCHANGED <<lifeVars, bcVars, auxVars, findVars, raviVars,
                   semaphoreIndex, semaphore, semaphoreLock, nAllocs, smName,
                   smExists, smStart, smTries>>

\* The handler stores the new semaphore with the returned id under its name
\* and releases s.semaphoreLock.
SemRegister(p) ==
    /\ smPc[p] = "register"
    /\ semaphore' = semaphore \cup {<<smName[p], smRet[p]>>}
    /\ semaphoreLock' = "none"
    /\ smPc' = [smPc EXCEPT ![p] = "idle"]
    /\ UNCHANGED <<lifeVars, bcVars, auxVars, findVars, raviVars,
                   semaphoreIndex, nAllocs, smName, smExists, smRet, smStart,
                   smTries, smHist>>

\* The handler gives up after NextSemaphoreID returned: the id is not
\* registered as a live semaphore; s.semaphoreLock is released.
SemDiscard(p) ==
    /\ smPc[p] = "register"
    /\ semaphoreLock' = "none"
    /\ smPc' = [smPc EXCEPT ![p] = "idle"]
    /\ UNCHANGED <<lifeVars, bcVars, auxVars, findVars, raviVars,
                   semaphoreIndex, semaphore, nAllocs, smName, smExists,
                   smRet, smStart, smTries, smHist>>

\* A handler deletes a semaphore from the map, under s.semaphoreLock.
SemRelease(e) ==
    /\ e \in semaphore
    /\ semaphoreLock = "none"
    /\ semaphore' = semaphore \ {e}
    /\ UNCHANGED <<lifeVars, bcVars, auxVars, findVars, raviVars,
                   semaphoreIndex, semaphoreLock, nAllocs, smPc, smName,
                   smExists, smRet, smStart, smTries, smHist>>

(* ------------------------- FindObjectByChar ---------------------------- *)

\* The stage contents a server may hold: within a stage each object id at
\* most once.
StageContents ==
    {objs \in SUBSET (ObjIds \X Chars) :
        \A o1, o2 \in objs : o1[1] = o2[1] => o1 = o2}

\* No lookup is in progress and no stage lock is held.
FindCallerIdle ==
    /\ stagesReaders = 0
    /\ stageReaders = [st \in DOMAIN stageObjs |-> 0]
    /\ fdPc = "idle"
    /\ fdStagesSeen = {}
    /\ fdStage = 0
    /\ fdObjsSeen = {}
    /\ fdResult = <<>>

FindInit ==
    /\ stageObjs \in [Stages -> StageContents]
    /\ fdChar \in Chars
    /\ FindCallerIdle

\* The stage registry of a freshly constructed server: the pre-seeded
\* stages hold no object.
FindIdle ==
    /\ stageObjs = [st \in SeededStages |-> {}]
    /\ fdChar = "c1"
    /\ FindCallerIdle

\* s.stagesLock.RLock(); defer s.stagesLock.RUnlock()
FindRLock ==
    /\ fdPc = "idle"
    /\ stagesReaders' = stagesReaders + 1
    /\ fdPc' = "stages"
    /\ UNCHANGED <<lifeVars, bcVars, auxVars, semVars, raviVars, stageObjs,
                   stageReaders, fdChar, fdStagesSeen, fdStage, fdObjsSeen,
                   fdResult>>

\* for _, stage := range s.stages { stage.RLock() ...
FindNextStage(st) ==
    /\ fdPc = "stages"
    /\ st \in Stages \ fdStagesSeen
    /\ fdStagesSeen' = fdStagesSeen \cup {st}
    /\ fdStage' = st
    /\ fdObjsSeen' = {}
    /\ stageReaders' = [stageReaders EXCEPT ![st] = @ + 1]
    /\ fdPc' = "objects"
    /\ UNCHANGED <<lifeVars, bcVars, auxVars, semVars, raviVars, stageObjs,
                   stagesReaders, fdChar, fdResult>>

\* FindNextObject returning the match without stage.RUnlock().
FindNextObjectKeepsLock(o) ==
    /\ fdPc = "objects"
    /\ o \in stageObjs[fdStage] \ fdObjsSeen
    /\ fdObjsSeen' = fdObjsSeen \cup {o}
    /\ IF o[2] = fdChar
         THEN /\ fdResult' = <<fdStage, o[1]>>
              /\ stagesReaders' = stagesReaders - 1
              /\ fdPc' = "done"
         ELSE UNCHANGED <<stagesReaders, fdResult, fdPc>>
    /\ UNCHANGED <<lifeVars, bcVars, auxVars, semVars, raviVars, stageObjs,
                   stageReaders, fdChar, fdStagesSeen, fdStage>>

\* for objId := range stage.objects { obj := stage.objects[objId];
\*   if obj.ownerCharID == charID { stage.RUnlock(); return obj } }
\* (the deferred s.stagesLock.RUnlock() runs with the return)
FindNextObject(o) ==
    /\ fdPc = "objects"
    /\ o \in stageObjs[fdStage] \ fdObjsSeen
    /\ fdObjsSeen' = fdObjsSeen \cup {o}
    /\ IF o[2] = fdChar
         THEN /\ stageReaders' = [stageReaders EXCEPT ![fdStage] = @ - 1]
              /\ fdResult' = <<fdStage, o[1]>>
              /\ stagesReaders' = stagesReaders - 1
              /\ fdPc' = "done"
         ELSE UNCHANGED <<stageReaders, stagesReaders, fdResult, fdPc>>
    /\ UNCHANGED <<lifeVars, bcVars, auxVars, semVars, raviVars, stageObjs,
                   fdChar, fdStagesSeen, fdStage>>

\* The inner range is exhausted: stage.RUnlock(), on to the next stage.
FindStageEnd ==
    /\ fdPc = "objects"
    /\ stageObjs[fdStage] \ fdObjsSeen = {}
    /\ stageReaders' = [stageReaders EXCEPT ![fdStage] = @ - 1]
    /\ fdPc' = "stages"
    /\ UNCHANGED <<lifeVars, bcVars, auxVars, semVars, raviVars, stageObjs,
                   stagesReaders, fdChar, fdStagesSeen, fdStage, fdObjsSeen,
                   fdResult>>

\* The outer range is exhausted: return nil (and the deferred RUnlock).
FindNotFound ==
    /\ fdPc = "stages"
    /\ Stages \ fdStagesSeen = {}
    /\ fdResult' = <<>>
    /\ stagesReaders' = stagesReaders - 1
    /\ fdPc' = "done"
    /\ UNCHANGED <<lifeVars, bcVars, auxVars, semVars, raviVars, stageObjs,
                   stageReaders, fdChar, fdStagesSeen, fdStage, fdObjsSeen>>

(* ------------------------- GetRaviMultiplier --------------------------- *)

RaviInit ==
    /\ rvMaxPlayers \in 0..MaxPlayersTop
    /\ rvHasSema \in BOOLEAN
    /\ rvClients \in 0..MaxOccupancy
    /\ rvPc = "idle"
    /\ rvResult = 0
    /\ rvPanic = FALSE

\* The Raviente state of a freshly constructed server (NewRaviente).
RaviIdle ==
    /\ rvMaxPlayers = 0
    /\ rvHasSema = FALSE
    /\ rvClients = 0
    /\ rvPc = "idle"
    /\ rvResult = 0
    /\ rvPanic = FALSE

\* if r.register.maxPlayers > 8 { minPlayers = 24 } else { minPlayers = 4 }
MinPlayers(maxPlayers) == IF maxPlayers > 8 THEN 24 ELSE 4

\* GetRaviMultiplier: 0 without a Raviente semaphore; 1 when
\* len(raviSema.clients) > minPlayers; otherwise
\* float64(minPlayers / len(raviSema.clients)), an integer division that
\* panics at run time when the divisor is 0.
GetRaviMultiplier ==
    /\ rvPc = "idle"
    /\ rvPc' = "done"
    /\ IF ~rvHasSema
         THEN rvResult' = 0 /\ rvPanic' = FALSE
         ELSE IF rvClients > MinPlayers(rvMaxPlayers)
           THEN rvResult' = 1 /\ rvPanic' = FALSE
           ELSE IF rvClients = 0
             THEN rvResult' = 0 /\ rvPanic' = TRUE
             ELSE /\ rvResult' = MinPlayers(rvMaxPlayers) \div rvClients
                  /\ rvPanic' = FALSE
    /\ UNCHANGED <<lifeVars, bcVars, auxVars, semVars, findVars, rvMaxPlayers,
                   rvHasSema, rvClients>>

(* ------------------------- FindSessionByCharID ------------------------- *)

\* No FindSessionByCharID call has been made.
FsInit ==
    /\ fsPc = "idle"
    /\ fsTarget = NilConn
    /\ fsIter = {}
    /\ fsResult = NilConn

(* -------------------- WorldcastMHF / BroadcastRaviente ----------------- *)

\* Everything but the cluster state.
restVars == <<lifeVars, bcVars, semVars, findVars, raviVars, fsVars>>

\* No worldcast has been started.
WcCallersIdle ==
    /\ chMutex = [ch \in Chans |-> "none"]
    /\ chMgPc = [ch \in Chans |-> "idle"]
    /\ wcPc = [w \in Wcasters |-> "idle"]
    /\ wcOrigin = [w \in Wcasters |-> NilChan]
    /\ wcIgnSess = [w \in Wcasters |-> NilSession]
    /\ wcIgnChan = [w \in Wcasters |-> NilChan]
    /\ wcIdx = [w \in Wcasters |-> 0]
    /\ wcIter = [w \in Wcasters |-> {}]
    /\ wcCalls = [w \in Wcasters |-> <<>>]
    /\ wcSent = [w \in Wcasters |-> {}]
    /\ wcType = [w \in Wcasters |-> -1]
    /\ wcText = [w \in Wcasters |-> ""]
    /\ wcLogged = [w \in Wcasters |-> FALSE]

\* A cluster of freshly constructed channels: no channel has a session.
WcIdle ==
    /\ chSessions = [ch \in Chans |-> {}]
    /\ WcCallersIdle

\* A cluster whose channels hold any sessions.
WcInit ==
    /\ chSessions \in [Chans -> SUBSET (1..SessPerChan)]
    /\ WcCallersIdle

AuxIdle == FsInit /\ WcIdle

\* manageSessions of channel ch: s.Lock() before an insert or a delete.
ChannelManageLock(ch) ==
    /\ chMgPc[ch] = "idle"
    /\ chMutex[ch] = "none"
    /\ chMutex' = [chMutex EXCEPT ![ch] = "manager"]
    /\ chMgPc' = [chMgPc EXCEPT ![ch] = "write"]
    /\ UNCHANGED <<restVars, chSessions, wcPc, wcOrigin, wcIgnSess, wcIgnChan,
                   wcIdx, wcIter, wcCalls, wcSent, wcType, wcText, wcLogged>>

\* s.sessions[newConn] = session or delete(s.sessions, delConn); s.Unlock()
ChannelManageWrite(ch, k) ==
    /\ chMgPc[ch] = "write"
    /\ chSessions' = [chSessions EXCEPT ![ch] =
                         IF k \in @ THEN @ \ {k} ELSE @ \cup {k}]
    /\ chMutex' = [chMutex EXCEPT ![ch] = "none"]
    /\ chMgPc' = [chMgPc EXCEPT ![ch] = "idle"]
    /\ UNCHANGED <<restVars, wcPc, wcOrigin, wcIgnSess, wcIgnChan, wcIdx,
                   wcIter, wcCalls, wcSent, wcType, wcText, wcLogged>>

\* A handler of channel o calls s.WorldcastMHF(pkt, ignoredSession,
\* ignoredChannel); each of the two may be nil.
WorldcastMHFCall(w, o, igs, igc) ==
    /\ wcPc[w] = "idle"
    /\ wcOrigin' = [wcOrigin EXCEPT ![w] = o]
    /\ wcIgnSess' = [wcIgnSess EXCEPT ![w] = igs]
    /\ wcIgnChan' = [wcIgnChan EXCEPT ![w] = igc]
    /\ wcIdx' = [wcIdx EXCEPT ![w] = 1]
    /\ wcPc' = [wcPc EXCEPT ![w] = "next"]
    /\ UNCHANGED <<restVars, chSessions, chMutex, chMgPc, wcIter, wcCalls,
                   wcSent, wcType, wcText, wcLogged>>

\* WorldcastMHFNext without the test for the ignored channel.
WorldcastMHFNextNoSkip(w) ==
    /\ wcPc[w] = "next"
    /\ IF wcIdx[w] > NumChans
         THEN /\ wcPc' = [wcPc EXCEPT ![w] = "done"]
              /\ UNCHANGED <<wcIdx, wcCalls>>
         ELSE /\ wcCalls' = [wcCalls EXCEPT ![w] = Append(@, wcIdx[w])]
              /\ wcPc' = [wcPc EXCEPT ![w] = "lock"]
              /\ UNCHANGED wcIdx
    /\ UNCHANGED <<restVars, chSessions, chMutex, chMgPc, wcOrigin, wcIgnSess,
                   wcIgnChan, wcIter, wcSent, wcType, wcText, wcLogged>>

\* for _, c := range s.Channels { if c == ignoredChannel { continue }
\*     c.BroadcastMHF(pkt, ignoredSession) }
WorldcastMHFNext(w) ==
    /\ wcPc[w] = "next"
    /\ IF wcIdx[w] > NumChans
         THEN /\ wcPc' = [wcPc EXCEPT ![w] = "done"]
              /\ UNCHANGED <<wcIdx, wcCalls>>
         ELSE IF wcIdx[w] = wcIgnChan[w]
           THEN /\ wcIdx' = [wcIdx EXCEPT ![w] = @ + 1]
                /\ UNCHANGED <<wcPc, wcCalls>>
           ELSE /\ wcCalls' = [wcCalls EXCEPT ![w] = Append(@, wcIdx[w])]
                /\ wcPc' = [wcPc EXCEPT ![w] = "lock"]
                /\ UNCHANGED wcIdx
    /\ UNCHANGED <<restVars, chSessions, chMutex, chMgPc, wcOrigin, wcIgnSess,
                   wcIgnChan, wcIter, wcSent, wcType, wcText, wcLogged>>

\* BroadcastMHF on channel wcIdx[w]: s.Lock(); defer s.Unlock()
ChannelBroadcastLock(w) ==
    /\ wcPc[w] = "lock"
    /\ chMutex[wcIdx[w]] = "none"
    /\ chMutex' = [chMutex EXCEPT ![wcIdx[w]] = w]
    /\ wcIter' = [wcIter EXCEPT ![w] = {}]
    /\ wcSent' = [wcSent EXCEPT ![w] = {}]
    /\ wcPc' = [wcPc EXCEPT ![w] = "range"]
    /\ UNCHANGED <<restVars, chSessions, chMgPc, wcOrigin, wcIgnSess,
                   wcIgnChan, wcIdx, wcCalls, wcType, wcText, wcLogged>>

\* for _, session := range s.sessions { if session == ignoredSession
\*     { continue }; ...; session.QueueSendNonBlocking(bf.Data()) }
ChannelBroadcastVisit(w, k) ==
    /\ wcPc[w] = "range"
    /\ k \in chSessions[wcIdx[w]] \ wcIter[w]
    /\ wcIter' = [wcIter EXCEPT ![w] = @ \cup {k}]
    /\ wcSent' = [wcSent EXCEPT ![w] =
                     IF <<wcIdx[w], k>> = wcIgnSess[w]
                       THEN @ ELSE @ \cup {<<wcIdx[w], k>>}]
    /\ UNCHANGED <<restVars, chSessions, chMutex, chMgPc, wcPc, wcOrigin,
                   wcIgnSess, wcIgnChan, wcIdx, wcCalls, wcType, wcText,
                   wcLogged>>

\* ChannelBroadcastUnlock returning to WorldcastMHF with the mutex of the
\* channel still held.
ChannelBroadcastUnlockKept(w) ==
    /\ wcPc[w] = "range"
    /\ chSessions[wcIdx[w]] \ wcIter[w] = {}
    /\ wcIdx' = [wcIdx EXCEPT ![w] = @ + 1]
    /\ wcPc' = [wcPc EXCEPT ![w] = "next"]
    /\ UNCHANGED <<restVars, chSessions, chMutex, chMgPc, wcOrigin, wcIgnSess,
                   wcIgnChan, wcIter, wcCalls, wcSent, wcType, wcText,
                   wcLogged>>

\* The range is exhausted: BroadcastMHF returns, the deferred s.Unlock()
\* runs, and WorldcastMHF goes on to the next channel.
ChannelBroadcastUnlock(w) ==
    /\ wcPc[w] = "range"
    /\ chSessions[wcIdx[w]] \ wcIter[w] = {}
    /\ chMutex' = [chMutex EXCEPT ![wcIdx[w]] = "none"]
    /\ wcIdx' = [wcIdx EXCEPT ![w] = @ + 1]
    /\ wcPc' = [wcPc EXCEPT ![w] = "next"]
    /\ UNCHANGED <<restVars, chSessions, chMgPc, wcOrigin, wcIgnSess,
                   wcIgnChan, wcIter, wcCalls, wcSent, wcType, wcText,
                   wcLogged>>

\* switch _type { case 2: text = s.dict["ravienteBerserk"] ... }
\* An unrecognized code leaves text at its zero value "".
RavienteText(t) ==
    CASE t = 2 -> Dict.ravienteBerserk
      [] t = 3 -> Dict.ravienteExtreme
      [] t = 4 -> Dict.ravienteExtremeLimited
      [] t = 5 -> Dict.ravienteBerserkSmall
      [] OTHER -> ""

\* BroadcastRaviente ending in the default case, after the error log.
BroadcastRavienteAborts(w, o, t) ==
    /\ wcPc[w] = "idle"
    /\ wcType' = [wcType EXCEPT ![w] = t]
    /\ wcText' = [wcText EXCEPT ![w] = RavienteText(t)]
    /\ wcLogged' = [wcLogged EXCEPT ![w] = t \notin {2, 3, 4, 5}]
    /\ wcOrigin' = [wcOrigin EXCEPT ![w] = o]
    /\ wcIgnSess' = [wcIgnSess EXCEPT ![w] = NilSession]
    /\ wcIgnChan' = [wcIgnChan EXCEPT ![w] = o]
    /\ wcIdx' = [wcIdx EXCEPT ![w] = 1]
    /\ wcPc' = [wcPc EXCEPT ![w] =
                   IF t \in {2, 3, 4, 5} THEN "next" ELSE "done"]
    /\ UNCHANGED <<restVars, chSessions, chMutex, chMgPc, wcIter, wcCalls,
                   wcSent>>

\* A handler of channel o calls s.BroadcastRaviente(ip, port, stage, t):
\* the text is chosen by the code (the default case logs an error), the
\* packet is built and s.WorldcastMHF(pkt, nil, s) is called.
BroadcastRaviente(w, o, t) ==
    /\ wcPc[w] = "idle"
    /\ wcType' = [wcType EXCEPT ![w] = t]
    /\ wcText' = [wcText EXCEPT ![w] = RavienteText(t)]
    /\ wcLogged' = [wcLogged EXCEPT ![w] = t \notin {2, 3, 4, 5}]
    /\ wcOrigin' = [wcOrigin EXCEPT ![w] = o]
    /\ wcIgnSess' = [wcIgnSess EXCEPT ![w] = NilSession]
    /\ wcIgnChan' = [wcIgnChan EXCEPT ![w] = o]
    /\ wcIdx' = [wcIdx EXCEPT ![w] = 1]
    /\ wcPc' = [wcPc EXCEPT ![w] = "next"]
    /\ UNCHANGED <<restVars, chSessions, chMutex, chMgPc, wcIter, wcCalls,
                   wcSent>>

\* FindSessionByCharID(charID) is called by some handler; t is the session
\* whose charID equals the argument (NilConn: no session has it). The
\* function takes no lock: for _, c := range s.Channels
\*     { for _, session := range c.sessions { ...
FindSessionCall(t) ==
    /\ fsPc = "idle"
    /\ fsTarget' = t
    /\ fsIter' = {}
    /\ fsPc' = "range"
    /\ UNCHANGED <<lifeVars, bcVars, semVars, findVars, raviVars, wcVars,
                   fsResult>>

\* The range over c.sessions produces the next entry;
\* if session.charID == charID { return session }
FindSessionVisit(c) ==
    /\ fsPc = "range"
    /\ c \in sessions \ fsIter
    /\ fsIter' = fsIter \cup {c}
    /\ IF c = fsTarget
         THEN fsResult' = c /\ fsPc' = "done"
         ELSE UNCHANGED <<fsResult, fsPc>>
    /\ UNCHANGED <<lifeVars, bcVars, semVars, findVars, raviVars, wcVars,
                   fsTarget>>

\* The range is exhausted: return nil.
FindSessionNotFound ==
    /\ fsPc = "range"
    /\ sessions \ fsIter = {}
    /\ fsResult' = NilConn
    /\ fsPc' = "done"
    /\ UNCHANGED <<lifeVars, bcVars, semVars, findVars, raviVars, wcVars,
                   fsTarget,
                   fsIter>>

\* The unlocked range runs while manageSessions writes the map (lines 257,
\* 264): a data race. Besides continuing as above, the Go runtime may stop
\* the process ("concurrent map iteration and map write").
FindSessionRace ==
    /\ fsPc = "range"
    /\ mgPc \in {"insert", "delete"}
    /\ fsPc' = "fatal"
    /\ UNCHANGED <<lifeVars, bcVars, semVars, findVars, raviVars, wcVars,
                   fsTarget,
                   fsIter, fsResult>>

(* ---------------------------- specification ---------------------------- *)

Init == LifeInit /\ BcInit /\ SemFresh /\ FindIdle /\ RaviIdle /\ AuxIdle

\* The connection lifecycle: acceptClients, manageSessions, the sessions'
\* removal notifications and Shutdown.
Next ==
    \/ ShutdownCall \/ ShutdownLock \/ ShutdownSetFlag
    \/ ShutdownCloseListener \/ ShutdownCloseChan
    \/ AcceptOk \/ AcceptErr \/ AcceptErrLock \/ AcceptErrRead
    \/ AcceptErrBranch \/ AcceptSendClosed
    \/ HandOff \/ RecvClosed \/ ManageNilCheck \/ ManageNilRead
    \/ ManageNilBranch \/ ManageInsertLock \/ ManageInsert \/ ManageStart
    \/ ManageDeleteLock \/ ManageDelete
    \/ \E c \in Conns : SessionEnd(c) \/ DeleteRecv(c)

Spec == Init /\ [][Next]_vars

\* Broadcasts running against the acceptor and the session manager of a
\* server that is not being shut down (Shutdown does not touch the session
\* set; it only stops the two loops).
NextBcast ==
    \/ AcceptOk \/ AcceptErr \/ AcceptErrLock \/ AcceptErrRead
    \/ AcceptErrBranch
    \/ HandOff \/ ManageNilCheck \/ ManageInsertLock \/ ManageInsert
    \/ ManageStart \/ ManageDeleteLock \/ ManageDelete
    \/ \E c \in Conns : SessionEnd(c) \/ DeleteRecv(c) \/ QueueDrain(c)
    \/ \E b \in SoloBcasters, ign \in AllConns : BroadcastCall(b, ign)
    \/ \E b \in SoloBcasters :
          BroadcastLock(b) \/ BroadcastRangeEnd(b) \/ BroadcastUnlock(b)
    \/ \E b \in SoloBcasters, c \in AllConns : BroadcastVisit(b, c)

SpecBcast == Init /\ [][NextBcast]_vars

\* Two tasks broadcasting to every session of the channel while connections
\* are accepted and inserted and the sessions drain their queues.
NextOrder ==
    \/ AcceptOk \/ HandOff \/ ManageNilCheck \/ ManageInsertLock
    \/ ManageInsert \/ ManageStart
    \/ \E c \in Conns : QueueDrain(c)
    \/ \E b \in Bcasters : BroadcastCall(b, NilConn)
    \/ \E b \in Bcasters :
          BroadcastLock(b) \/ BroadcastRangeEnd(b) \/ BroadcastUnlock(b)
    \/ \E b \in Bcasters, c \in AllConns : BroadcastVisit(b, c)

SpecOrder == Init /\ [][NextOrder]_vars

\* Every operation that touches the session set of a channel: the session
\* manager, broadcasts and a FindSessionByCharID call.
NextAccess ==
    \/ AcceptOk \/ HandOff \/ ManageNilCheck \/ ManageInsertLock
    \/ ManageInsert \/ ManageStart \/ ManageDeleteLock \/ ManageDelete
    \/ \E c \in Conns : SessionEnd(c) \/ DeleteRecv(c)
    \/ \E b \in SoloBcasters, ign \in AllConns : BroadcastCall(b, ign)
    \/ \E b \in SoloBcasters :
          BroadcastLock(b) \/ BroadcastRangeEnd(b) \/ BroadcastUnlock(b)
    \/ \E b \in SoloBcasters, c \in AllConns : BroadcastVisit(b, c)
    \/ \E t \in AllConns : FindSessionCall(t)
    \/ \E c \in Conns : FindSessionVisit(c)
    \/ FindSessionNotFound
    \/ FindSessionRace

SpecAccess == Init /\ [][NextAccess]_vars

\* The semaphore registry: handlers creating and deleting semaphores, from
\* any cursor value in CursorStarts and any start map.
InitSem ==
    LifeInit /\ BcInit /\ SemInit /\ FindIdle /\ RaviIdle /\ AuxIdle

NextSem ==
    \/ \E p \in SemCallers, n \in SemNames : SemCreate(p, n)
    \/ \E p \in SemCallers :
          \/ SemLock(p)
          \/ NextSemaphoreIDAdvance(p)
          \/ NextSemaphoreIDScan(p)
          \/ NextSemaphoreIDCheck(p)
          \/ NextSemaphoreIDReturn(p)
          \/ SemRegister(p)
    \/ \E e \in semaphore : SemRelease(e)

SpecSem == InitSem /\ [][NextSem]_vars

\* A freshly constructed server whose handlers allocate semaphore ids,
\* registering each returned id or not, and delete semaphores.
NextFresh ==
    \/ NextSem
    \/ \E p \in SemCallers : SemDiscard(p)

SpecFresh == Init /\ [][NextFresh]_vars

\* One FindObjectByChar call, for any character, on any stage contents.
InitFind ==
    LifeInit /\ BcInit /\ SemFresh /\ FindInit /\ RaviIdle /\ AuxIdle

NextFind ==
    \/ FindRLock
    \/ \E st \in Stages : FindNextStage(st)
    \/ \E o \in ObjIds \X Chars : FindNextObject(o)
    \/ FindStageEnd
    \/ FindNotFound

SpecFind == InitFind /\ [][NextFind]_vars

\* One worldcast, with any ignored session and ignored channel, on a
\* cluster whose session managers insert and remove sessions.
InitCast ==
    /\ LifeInit /\ BcInit /\ SemFresh /\ FindIdle /\ RaviIdle
    /\ FsInit /\ WcIdle

NextCast ==
    \/ \E ch \in Chans : ChannelManageLock(ch)
    \/ \E ch \in Chans, k \in 1..SessPerChan : ChannelManageWrite(ch, k)
    \/ \E o \in Chans, igs \in ChanSessions \cup {NilSession},
           igc \in Chans \cup {NilChan} :
          WorldcastMHFCall("w1", o, igs, igc)
    \/ WorldcastMHFNext("w1")
    \/ ChannelBroadcastLock("w1")
    \/ ChannelBroadcastUnlock("w1")
    \/ \E k \in 1..SessPerChan : ChannelBroadcastVisit("w1", k)

SpecCast == InitCast /\ [][NextCast]_vars

\* The stage registry during the worldcasts: every stage holds one object
\* of the first character, which the lookup is for.
FindWorld ==
    /\ stageObjs = [st \in Stages |-> {<<1, "c1">>}]
    /\ fdChar = "c1"
    /\ FindCallerIdle

\* Two worldcasts to everybody, started from the first two channels of a
\* cluster in which every session manager inserts and removes a session,
\* beside a FindObjectByChar call.
InitWorld ==
    /\ LifeInit /\ BcInit /\ SemFresh /\ FindWorld /\ RaviIdle
    /\ FsInit /\ WcIdle

NextWorld ==
    \/ \E ch \in Chans : ChannelManageLock(ch) \/ ChannelManageWrite(ch, 1)
    \/ WorldcastMHFCall("w1", 1, NilSession, NilChan)
    \/ WorldcastMHFCall("w2", 2, NilSession, NilChan)
    \/ \E w \in Wcasters :
          \/ WorldcastMHFNext(w)
          \/ ChannelBroadcastLock(w)
          \/ ChannelBroadcastUnlock(w)
    \/ \E w \in Wcasters, k \in 1..SessPerChan : ChannelBroadcastVisit(w, k)
    \/ FindRLock
    \/ \E st \in Stages : FindNextStage(st)
    \/ \E o \in ObjIds \X Chars : FindNextObject(o)

SpecWorld == InitWorld /\ [][NextWorld]_vars

\* One BroadcastRaviente call, with any event-type code, from any channel
\* of a cluster holding any sessions.
InitAnnounce ==
    /\ LifeInit /\ BcInit /\ SemFresh /\ FindIdle /\ RaviIdle
    /\ FsInit /\ WcInit

NextAnnounce ==
    \/ \E o \in Chans, t \in TypeCodes : BroadcastRaviente("w1", o, t)
    \/ WorldcastMHFNext("w1")
    \/ ChannelBroadcastLock("w1")
    \/ ChannelBroadcastUnlock("w1")
    \/ \E k \in 1..SessPerChan : ChannelBroadcastVisit("w1", k)

SpecAnnounce == InitAnnounce /\ [][NextAnnounce]_vars

\* One GetRaviMultiplier call, for any max-player target and occupancy.
InitRavi ==
    LifeInit /\ BcInit /\ SemFresh /\ FindIdle /\ RaviInit /\ AuxIdle

NextRavi == GetRaviMultiplier

SpecRavi == InitRavi /\ [][NextRavi]_vars

(* ------------------------------ helpers -------------------------------- *)

\* The elements of a sequence.
Range(q) == {q[i] : i \in 1..Len(q)}

\* No element occurs twice in the sequence.
NoDup(q) == Cardinality(Range(q)) = Len(q)

(* ------------------------- claims: broadcast --------------------------- *)

\* C1: while a broadcast iterates, the session set is the one it found when
\* it took the server mutex (no insertion or removal in between); it calls
\* the enqueue at most once per session and only for sessions of that set
\* other than the ignored one; when the loop has ended it has called it for
\* exactly those sessions; the ignored session's queue never holds the packet.
C1_BroadcastVisitsSnapshot ==
    \A b \in Bcasters :
        /\ bcPc[b] \in {"range", "return"} =>
              /\ sessions = bcSnap[b]
              /\ NoDup(bcTried[b])
              /\ Range(bcTried[b]) \subseteq bcSnap[b] \ {bcIgnored[b]}
              /\ bcMsg[b] \notin Range(queue[bcIgnored[b]])
        /\ bcPc[b] = "return" =>
              Range(bcTried[b]) = bcSnap[b] \ {bcIgnored[b]}

\* A broadcast over two sessions, one of them ignored, has finished its loop
\* while the session manager waits for the mutex to insert or delete.
C1_Witness ==
    \E b \in Bcasters :
        /\ bcPc[b] = "return"
        /\ Cardinality(bcSnap[b]) >= 2
        /\ bcIgnored[b] \in bcSnap[b]
        /\ bcTried[b] # <<>>
        /\ mgPc \in {"newSession", "delLock"}

\* C2: a broadcast holding the mutex can always take its next step whatever
\* the recipients' queue occupancy; when its loop has ended every session
\* other than the ignored one was attempted, the packet was enqueued to
\* exactly the attempted sessions whose queue was not full, and once the
\* call has returned the broadcaster no longer holds the mutex.
C2_BroadcastNeverBlocks ==
    \A b \in Bcasters :
        /\ bcPc[b] = "range" =>
              ENABLED (\/ BroadcastRangeEnd(b)
                       \/ \E c \in AllConns : BroadcastVisit(b, c))
        /\ bcPc[b] = "return" =>
              /\ Range(bcTried[b]) = sessions \ {bcIgnored[b]}
              /\ bcGot[b] = Range(bcTried[b]) \ bcFull[b]
        /\ bcPc[b] = "idle" => mutex # b

\* A finished broadcast that met both a full and a non-full recipient.
C2_Witness ==
    \E b \in Bcasters :
        /\ bcPc[b] = "return"
        /\ bcFull[b] # {}
        /\ bcGot[b] # {}

(* ------------------------- claims: lifecycle --------------------------- *)

\* C7: once Shutdown has returned, no session is inserted into the session
\* set any more and the acceptor loop does not end in a panic (both loops
\* terminate normally), whatever the acceptor and the manager were doing
\* when Shutdown ran.
C7_ShutdownStopsLoops ==
    [][sdPc = "done" => (sessions' \subseteq sessions /\ acPc' # "panic")]_vars

\* C8: no step after a successful Start reaches a process-fatal state.
C8_NoPanic == acPc # "panic"

\* C10: every inserted session is eventually removed.  manageSessions is
\* the only remover and never runs again once it has returned, so when it
\* has returned no session may be left in the set and no removal
\* notification may still be waiting on deleteConns.
C10_SessionsEventuallyRemoved ==
    mgPc = "done" =>
        /\ sessions = {}
        /\ \A c \in Conns : connSt[c] # "notifying"

(* ------------------------- claims: semaphores -------------------------- *)

\* The first id NextSemaphoreID returns on a freshly constructed server:
\* one above the cursor NewServer sets.
FirstFreshId == InitialIndex + 1

\* The least id from ReservedSkip upwards that no live semaphore holds.
LeastFreeId ==
    CHOOSE i \in ReservedSkip..MaxId :
        i \notin LiveIds /\ \A j \in ReservedSkip..(i - 1) : j \in LiveIds

\* C3: the id NextSemaphoreID returns is held by no live semaphore and is
\* not below the reserved threshold, and no two live semaphores share an id
\* or hold a reserved one, after any sequence of create and delete operations.
C3_FreshUnreservedId ==
    /\ \A p \in SemCallers :
          smPc[p] = "register" =>
              /\ smRet[p] \notin LiveIds
              /\ smRet[p] \in ReservedSkip..MaxId
    /\ \A e1, e2 \in semaphore : e1[2] = e2[2] => e1 = e2
    /\ \A e \in semaphore : e[2] >= ReservedSkip

\* A call has returned after at least one collision with a live semaphore.
C3_Witness ==
    \E p \in SemCallers :
        /\ smPc[p] = "register"
        /\ smTries[p] >= 2
        /\ semaphore # {}

C5_WrapReturnsFirstFreshId ==
    \A p \in SemCallers :
        (smPc[p] = "register" /\ smStart[p] = MaxId
            /\ FirstFreshId \notin LiveIds) =>
                smRet[p] = FirstFreshId

\* C5 as amended: from a cursor at the top of the range the call wraps to
\* the reserved-skip value 7, the cursor a fresh server starts from and one
\* below the first id a fresh allocator returns: it returns the least id from
\* 7 upwards that no live semaphore holds (7 itself when it is free), never
\* 0 and never an id below 7.
C5_WrapReturnsReservedSkip ==
    \A p \in SemCallers :
        (smPc[p] = "register" /\ smStart[p] = MaxId) =>
            /\ smRet[p] = LeastFreeId
            /\ smRet[p] >= ReservedSkip
            /\ (ReservedSkip \notin LiveIds => smRet[p] = FirstFreshId - 1)

\* A call that started at the top of the range has returned 7.
C5_Witness ==
    \E p \in SemCallers :
        /\ smPc[p] = "register"
        /\ smStart[p] = MaxId
        /\ smRet[p] = ReservedSkip

(* -------------------------- claims: registries ------------------------- *)

\* The objects, as <<stage, object id>>, whose owner is the character c.
OwnedBy(c) ==
    UNION {{<<st, o[1]>> : o \in {x \in stageObjs[st] : x[2] = c}} :
              st \in Stages}

\* C6: GetRaviMultiplier returns a value for every max-player target and
\* occupancy: 0 without a Raviente semaphore; otherwise, with threshold 24
\* if maxPlayers > 8 and 4 if not, 1 when the occupancy exceeds the threshold
\* and floor(threshold / occupancy) for every other occupancy.
C6_MultiplierValue ==
    rvPc = "done" =>
        /\ ~rvPanic
        /\ ~rvHasSema => rvResult = 0
        /\ (rvHasSema /\ rvClients > MinPlayers(rvMaxPlayers)) => rvResult = 1
        /\ (rvHasSema /\ rvClients > 0
               /\ rvClients <= MinPlayers(rvMaxPlayers)) =>
              rvResult = MinPlayers(rvMaxPlayers) \div rvClients

\* C9: when FindObjectByChar has returned, the result is nil if no object
\* of any stage has the owner looked up, it is that object if exactly one
\* has, in every order of iteration it is nil or an object of that owner,
\* and the stage-map read lock and every stage read lock are released.
C9_FindObjectByChar ==
    fdPc = "done" =>
        /\ OwnedBy(fdChar) = {} => fdResult = <<>>
        /\ Cardinality(OwnedBy(fdChar)) = 1 => fdResult \in OwnedBy(fdChar)
        /\ fdResult # <<>> => fdResult \in OwnedBy(fdChar)
        /\ stagesReaders = 0
        /\ \A st \in Stages : stageReaders[st] = 0

\* The single object of the owner was found in the stage scanned last,
\* after objects of another owner had been passed over.
C9_Witness ==
    /\ fdPc = "done"
    /\ Cardinality(OwnedBy(fdChar)) = 1
    /\ fdResult \in OwnedBy(fdChar)
    /\ fdStagesSeen = Stages
    /\ fdObjsSeen # {}
    /\ \E st \in Stages : \E o \in stageObjs[st] : o[2] # fdChar

(* ------------------------------ claim C11 ------------------------------ *)

\* C11: a freshly constructed channel server has exactly 7 pre-seeded
\* stages, an empty session set, an empty semaphore map and allocator
\* cursor 7, and its first three NextSemaphoreID calls return 8, 9 and 10
\* in that order, whether or not the returned ids get registered.
C11_FreshServer ==
    /\ Cardinality(DOMAIN stageObjs) = 7
    /\ sessions = {}
    /\ nAllocs = 0 => semaphore = {} /\ semaphoreIndex = 7
    /\ \A i \in 1..Len(smHist) : i <= 3 => smHist[i] = <<8, 9, 10>>[i]

\* Three calls have returned; one id was registered and is live, the
\* others were dropped or deleted.
C11_Witness ==
    /\ Len(smHist) >= 3
    /\ Cardinality(semaphore) = 1
    /\ \A p \in SemCallers : smPc[p] = "idle"

(* ------------------------------ claim C12 ------------------------------ *)

\* C12: every access to the session set -- the manager's insert and delete
\* and every read by BroadcastMHF and FindSessionByCharID -- happens while
\* the accessing task holds the server mutex, so that no read interleaves
\* with an insertion or a removal.
C12_SessionSetUnderMutex ==
    /\ mgPc \in {"insert", "delete"} => mutex = "manager"
    /\ \A b \in Bcasters : bcPc[b] \in {"range", "return"} => mutex = b
    /\ fsPc = "range" => mutex = "finder"
    /\ fsPc # "fatal"

(* ------------------------------ claim C13 ------------------------------ *)

\* C13: when the manager has received nil from the closed acceptConns
\* channel the shutdown flag is already set, so the flag it reads is set and
\* it leaves its loop: it never constructs, registers or starts a session
\* for a nil connection.
C13_NilMeansShutdown ==
    /\ (mgPc \in {"nilCheck", "nilRead"} /\ mgConn = NilConn)
          => isShuttingDown
    /\ mgPc = "nilBranch" => mgShutdown
    /\ mgPc \in {"newSession", "insert", "start"} => mgConn \in Conns
    /\ NilConn \notin sessions

\* The manager has received nil and left its loop.
C13_Witness == mgPc = "done" /\ mgConn = NilConn /\ ~acceptConnsOpen

(* ------------------------------ claim C14 ------------------------------ *)

\* C14: in acceptClients an Accept failure observed with the shutdown flag
\* unset sends the loop back to Accept, however many failures came before;
\* the loop ends only on a failure observed with the flag set, and then
\* with no connection left to hand off.
C14_AcceptFailure ==
    [][/\ (acPc = "errRead" /\ acPc' # acPc)
            => acPc' = "errBranch" /\ acShutdown' = isShuttingDown
       /\ (acPc = "errBranch" /\ acPc' # acPc)
            => acPc' = IF acShutdown THEN "done" ELSE "accept"
       /\ (acPc' = "done" /\ acPc # "done")
            => /\ acPc = "errBranch" /\ acShutdown /\ isShuttingDown
               /\ acConn = NilConn /\ acConn' = NilConn
               /\ mgPc' = mgPc /\ mgConn' = mgConn]_vars

\* The loop has ended on a failure after an earlier failure sent it back to
\* Accept and a connection was accepted and handed off.
C14_Witness == acPc = "done" /\ nextConn > 1 /\ sdPc = "done"

(* ------------------------------ claim C15 ------------------------------ *)

\* C15: each accepted connection is handed off exactly once and in
\* acceptance order (the handoffs are the acceptances, in order, without
\* repetition, and the accept loop never ends with a connection not handed
\* off); a session is in the session set before its read/write activity
\* starts; a removal is processed only for an inserted connection, and
\* once processed the connection is not in the set again.
C15_HandoffInsertRemove ==
    /\ Len(handedOff) <= Len(accepted)
    /\ \A i \in 1..Len(handedOff) : handedOff[i] = accepted[i]
    /\ NoDup(handedOff)
    /\ Len(accepted) > Len(handedOff)
          => Len(accepted) = Len(handedOff) + 1 /\ acConn = nextConn - 1
    /\ acPc \in {"done", "panic"} => handedOff = accepted
    /\ \A c \in Conns :
          /\ connSt[c] \in {"running", "notifying"} => c \in sessions
          /\ (connSt[c] = "gone" /\ mgPc \in {"delLock", "delete"}
               /\ mgConn = c) => c \in sessions
          /\ (connSt[c] = "gone" /\ ~(mgPc \in {"delLock", "delete"}
               /\ mgConn = c)) => c \notin sessions

(* ------------------------------ claim C18 ------------------------------ *)

\* C18: a NextSemaphoreID call made while k semaphores are live returns
\* after at most k + 1 cursor advances (so it terminates whenever a
\* non-reserved id is free), and on return the cursor equals the returned
\* id, which no live semaphore holds.
C18_BoundedAdvances ==
    \A p \in SemCallers :
        smPc[p] \in {"advance", "scan", "check", "return", "register"}
          => /\ smTries[p] <= Cardinality(semaphore) + 1
             /\ smPc[p] = "advance" => smTries[p] <= Cardinality(semaphore)
             /\ smPc[p] = "register"
                   => /\ smRet[p] = semaphoreIndex
                      /\ smRet[p] \notin LiveIds
                      /\ smTries[p] >= 1

\* A call has returned after colliding with every live semaphore.
C18_Witness ==
    \E p \in SemCallers :
        /\ smPc[p] = "register"
        /\ semaphore # {}
        /\ smTries[p] = Cardinality(semaphore) + 1

(* ------------------------------ claim C20 ------------------------------ *)

\* Packet a was enqueued before packet b in the sequence q.
Before(q, a, b) ==
    \E i, j \in 1..Len(q) : i < j /\ q[i] = a /\ q[j] = b

\* C20: the broadcasts on a channel are totally ordered: no two sessions
\* have the packets of two concurrently issued BroadcastMHF calls enqueued
\* in opposite orders.
C20_BroadcastsTotallyOrdered ==
    \A c, d \in Conns : \A m1, m2 \in 1..MaxBroadcasts :
        Before(enqLog[c], m1, m2) => ~Before(enqLog[d], m2, m1)

\* Two tasks issued one broadcast each, the second while the first held the
\* mutex or before; two sessions have both packets enqueued.
C20_Witness ==
    /\ bcMsg["b1"] # 0 /\ bcMsg["b2"] # 0
    /\ \E c, d \in Conns :
          /\ c # d
          /\ Before(enqLog[c], bcMsg["b1"], bcMsg["b2"])
          /\ Before(enqLog[d], bcMsg["b1"], bcMsg["b2"])

(* ------------------------------ claim C16 ------------------------------ *)

\* s.Channels without the ignored channel, in list order.
ExpectedCalls(w) ==
    SelectSeq([i \in 1..NumChans |-> i], LAMBDA c : c # wcIgnChan[w])

\* q is an initial part of r.
IsPrefix(q, r) ==
    Len(q) <= Len(r) /\ \A i \in 1..Len(q) : q[i] = r[i]

\* C16: a worldcast invokes the channel broadcast exactly once on every
\* channel of the list except the ignored one (on the calling channel too
\* unless it is the ignored one), never enqueues to the ignored session on
\* any channel, and holds at most one channel's mutex at a time.
C16_WorldcastChannels ==
    \A w \in Wcasters :
        /\ Cardinality({ch \in Chans : chMutex[ch] = w}) <= 1
        /\ wcIgnSess[w] \notin wcSent[w]
        /\ IsPrefix(wcCalls[w], ExpectedCalls(w))
        /\ wcPc[w] = "done"
              => /\ wcCalls[w] = ExpectedCalls(w)
                 /\ wcOrigin[w] # wcIgnChan[w]
                       => wcOrigin[w] \in Range(wcCalls[w])
                 /\ wcIgnChan[w] \notin Range(wcCalls[w])

\* A worldcast has ended that skipped an ignored channel other than its
\* own and met the ignored session on the last channel it broadcast on.
C16_Witness ==
    \E w \in Wcasters :
        /\ wcPc[w] = "done"
        /\ wcIgnChan[w] \in Chans /\ wcOrigin[w] # wcIgnChan[w]
        /\ wcCalls[w] # <<>>
        /\ wcIgnSess[w][1] = wcCalls[w][Len(wcCalls[w])]
        /\ wcIgnSess[w][2] \in wcIter[w]

(* ------------------------------ claim C17 ------------------------------ *)

\* The registry locks task t holds: channel mutexes and the semaphore lock.
LocksHeld(t) ==
    {<<"sessions", ch>> : ch \in {c \in Chans : chMutex[c] = t}}
      \cup (IF semaphoreLock = t THEN {<<"semaphore", 0>>} ELSE {})

\* The task holding the mutex worldcaster w waits for can take a step.
HolderCanStep(w) ==
    LET ch == wcIdx[w]
        h == chMutex[ch]
    IN  \/ h = "none"
        \/ /\ h = "manager"
           /\ ENABLED (\E k \in 1..SessPerChan : ChannelManageWrite(ch, k))
        \/ /\ h \in Wcasters
           /\ ENABLED (\/ ChannelBroadcastUnlock(h)
                       \/ \E k \in 1..SessPerChan :
                             ChannelBroadcastVisit(h, k))

\* C17: no task holds two registry locks at once, and none waits for one
\* while holding another: two concurrent worldcasts, session insertions
\* and removals and a FindObjectByChar call never deadlock (a waiting
\* task's lock holder can always step, every other task can step itself).
C17_NoNestedRegistryLocks ==
    /\ \A w \in Wcasters :
          /\ Cardinality(LocksHeld(w)) <= 1
          /\ wcPc[w] = "lock" => LocksHeld(w) = {} /\ HolderCanStep(w)
          /\ wcPc[w] = "next" => ENABLED WorldcastMHFNext(w)
          /\ wcPc[w] = "range"
                => ENABLED (\/ ChannelBroadcastUnlock(w)
                            \/ \E k \in 1..SessPerChan :
                                  ChannelBroadcastVisit(w, k))
    /\ \A ch \in Chans :
          /\ chMutex[ch] = "manager" <=> chMgPc[ch] = "write"
          /\ chMgPc[ch] = "write"
                => ENABLED (\E k \in 1..SessPerChan :
                              ChannelManageWrite(ch, k))
    /\ stagesReaders > 0 => fdPc \in {"stages", "objects"}
    /\ fdPc \in {"stages", "objects"} => ENABLED NextFind

\* Two worldcasts from different channels: one holds the mutex the other
\* waits for, while the lookup holds the stage-map lock and a manager
\* holds the mutex of another channel.
C17_Witness ==
    /\ wcPc["w1"] = "range" /\ wcPc["w2"] = "lock"
    /\ wcIdx["w1"] = wcIdx["w2"]
    /\ wcOrigin["w1"] # wcOrigin["w2"]
    /\ \E ch \in Chans : chMutex[ch] = "manager"
    /\ fdPc = "objects"

(* ------------------------------ claim C19 ------------------------------ *)

\* C19: BroadcastRaviente logs an error exactly for the codes other than
\* 2, 3, 4 and 5 and then writes an empty text, for codes 2 to 5 it writes
\* the localized string of the code; in both cases the worldcast follows
\* and calls the enqueue for the same sessions: it broadcasts on every
\* channel but the calling one, to every session of the channel.
C19_RavienteFallback ==
    \A w \in Wcasters : wcType[w] # -1 =>
        /\ wcLogged[w] <=> wcType[w] \notin {2, 3, 4, 5}
        /\ wcType[w] = 2 => wcText[w] = Dict["ravienteBerserk"]
        /\ wcType[w] = 3 => wcText[w] = Dict["ravienteExtreme"]
        /\ wcType[w] = 4 => wcText[w] = Dict["ravienteExtremeLimited"]
        /\ wcType[w] = 5 => wcText[w] = Dict["ravienteBerserkSmall"]
        /\ wcType[w] \notin {2, 3, 4, 5} => wcText[w] = ""
        /\ wcPc[w] # "idle"
        /\ IsPrefix(wcCalls[w], SelectSeq([i \in 1..NumChans |-> i],
                                          LAMBDA c : c # wcOrigin[w]))
        /\ (wcPc[w] = "range" /\ ENABLED ChannelBroadcastUnlock(w))
              => wcSent[w] = {wcIdx[w]} \X chSessions[wcIdx[w]]
        /\ wcPc[w] = "done"
              => wcCalls[w] = SelectSeq([i \in 1..NumChans |-> i],
                                        LAMBDA c : c # wcOrigin[w])

\* A call with an unrecognized code has ended: the error was logged, the
\* text is empty, and sessions of other channels got the packet.
C19_Witness ==
    \E w \in Wcasters :
        /\ wcPc[w] = "done"
        /\ wcType[w] \in TypeCodes \ {2, 3, 4, 5}
        /\ wcLogged[w] /\ wcText[w] = ""
        /\ wcSent[w] # {}

====
